---- MODULE Spec2Model ----
(***************************************************************************)
(* Model of src/main.cpp: a Perlin-style gradient noise renderer.          *)
(*                                                                         *)
(* WinMain computes the gradient grid size from the configuration          *)
(* constants, fills the grid with random unit vectors drawn from a seeded  *)
(* generator, evaluates fractalPerlin for every pixel and then sits in the *)
(* display loop.  The configuration constants of the source (WIDTH,        *)
(* HEIGHT, GRID_SIZE, OCTAVES, PERSISTENCE) are a record cfg chosen in     *)
(* Init, so that the statements about "every configuration" range over     *)
(* more than the one configuration compiled into the source.               *)
(*                                                                         *)
(* float values are modelled as exact rationals <<num, den>>, den > 0, in  *)
(* lowest terms.  (int)x of a non-negative x is the floor.  The Mersenne   *)
(* twister is modelled by a small linear congruential generator and the    *)
(* uniform angle by an index into a table of twelve unit vectors with      *)
(* rational coordinates.                                                   *)
(*                                                                         *)
(* Every per-execution variable is a function of the run r, so that two    *)
(* independent executions of the program on the same configuration can be  *)
(* compared.                                                               *)
(***************************************************************************)
EXTENDS Integers, Sequences, FiniteSets, TLC

\* ---------------------------------------------------------------- bounds
MaxW == 3
MaxH == 2
MaxCell == 3
MaxOct == 3
MaxFlips == 1
FadeDen == 7

\* ------------------------------------------------------ program constants
OCTAVES == 5
PERSISTENCE == <<1, 2>>
Seed == 1234
RngM == 65537
RngA == 75
RngC == 74
GradDen == 5

\* ------------------------------------------------------ exact arithmetic
Abs(a) == IF a < 0 THEN -a ELSE a

RECURSIVE GCD(_, _)
GCD(a, b) == IF b = 0 THEN a ELSE GCD(b, a % b)

Norm(q) ==
    LET g == GCD(Abs(q[1]), q[2])
    IN  <<q[1] \div g, q[2] \div g>>

R(k) == <<k, 1>>

RAdd(a, b) ==
    LET g == GCD(a[2], b[2])
        l == (a[2] \div g) * b[2]
    IN  Norm(<<a[1] * (l \div a[2]) + b[1] * (l \div b[2]), l>>)

RNeg(a) == <<-a[1], a[2]>>

RSub(a, b) == RAdd(a, RNeg(b))

RMul(a, b) ==
    LET g1 == GCD(Abs(a[1]), b[2])
        g2 == GCD(Abs(b[1]), a[2])
    IN  Norm(<<(a[1] \div g1) * (b[1] \div g2), (a[2] \div g2) * (b[2] \div g1)>>)

RInv(a) == IF a[1] > 0 THEN <<a[2], a[1]>> ELSE <<-a[2], -a[1]>>

RDiv(a, b) == RMul(a, RInv(b))

RLe(a, b) == RSub(b, a)[1] >= 0

Floor(a) == a[1] \div a[2]

IsInt(a) == a[2] = 1

RECURSIVE Pow2(_)
Pow2(k) == IF k <= 0 THEN 1 ELSE 2 * Pow2(k - 1)

RECURSIVE RPow(_, _)
RPow(a, k) == IF k = 0 THEN R(1) ELSE RMul(a, RPow(a, k - 1))

\* ------------------------------------------------------- pure functions
\* fade with a wrong last coefficient
fadeWrongConstant(t) ==
    RMul(RMul(RMul(t, t), t),
         RAdd(RMul(t, RSub(RMul(t, R(6)), R(15))), R(15)))

\* fade: t * t * t * (t * (t * 6 - 15) + 10)
fade(t) ==
    RMul(RMul(RMul(t, t), t),
         RAdd(RMul(t, RSub(RMul(t, R(6)), R(15))), R(10)))

\* lerp: a + t * (b - a)
lerp(a, b, t) == RAdd(a, RMul(t, RSub(b, a)))

\* dotGridGradient that dots the gradient with (x, y) instead of the
\* displacement from the vertex
dotGridGradientNoOffset(ix, iy, x, y, grads) ==
    LET grad == grads[iy][ix]
    IN  RAdd(RMul(x, Norm(<<grad[1], GradDen>>)),
             RMul(y, Norm(<<grad[2], GradDen>>)))

\* a stored gradient <<a, b>> stands for (a / GradDen, b / GradDen)
dotGridGradient(ix, iy, x, y, grads) ==
    LET dx   == RSub(x, R(ix))
        dy   == RSub(y, R(iy))
        grad == grads[iy][ix]
    IN  RAdd(RMul(dx, Norm(<<grad[1], GradDen>>)),
             RMul(dy, Norm(<<grad[2], GradDen>>)))

perlin(x, y, grads) ==
    LET x0  == Floor(x)
        y0  == Floor(y)
        x1  == x0 + 1
        y1  == y0 + 1
        sx  == fade(RSub(x, R(x0)))
        sy  == fade(RSub(y, R(y0)))
        n0  == dotGridGradient(x0, y0, x, y, grads)
        n1  == dotGridGradient(x1, y0, x, y, grads)
        ix0 == lerp(n0, n1, sx)
        n2  == dotGridGradient(x0, y1, x, y, grads)
        n3  == dotGridGradient(x1, y1, x, y, grads)
        ix1 == lerp(n2, n3, sx)
    IN  lerp(ix0, ix1, sy)

\* the four vertices perlin(x, y) reads are elements of the gw x gh grid
InGrid(x, y, gw, gh) ==
    /\ Floor(x) >= 0 /\ Floor(x) + 1 < gw
    /\ Floor(y) >= 0 /\ Floor(y) + 1 < gh

\* the twelve directions (cos, sin) with rational coordinates over GradDen
Directions ==
    << <<5, 0>>, <<4, 3>>, <<3, 4>>, <<0, 5>>, <<-3, 4>>, <<-4, 3>>,
       <<-5, 0>>, <<-4, -3>>, <<-3, -4>>, <<0, -5>>, <<3, -4>>, <<4, -3>> >>

\* one draw: advances the generator and turns the angle into a unit vector
randomGradient(gen) ==
    LET g2 == (RngA * gen + RngC) % RngM
    IN  [grad |-> Directions[(g2 % Len(Directions)) + 1], gen |-> g2]

\* WIDTH / GRID_SIZE * (1 << (OCTAVES - 1)) + 2, with int division
GridDim(size, cell, oct) == (size \div cell) * Pow2(oct - 1) + 2

\* (r + 1) / 2 : remap of the composed noise to the field value
Remap(v) == RDiv(RAdd(v, R(1)), R(2))

\* total += perlin(...) * amplitude
AddOctave(tot, sample, amp) == RAdd(tot, RMul(sample, amp))

\* the amplitude is not decayed
NextAmplitudeKept(amp, pers) == amp

\* amplitude *= PERSISTENCE
NextAmplitude(amp, pers) == RMul(amp, pers)

\* frequency *= 2.0f
NextFrequency(f) == f * 2

\* inner loop that stops one column early (x < gridW - 1)
NextVertexShort(x, y, gw) == IF x + 2 < gw THEN <<x + 1, y>> ELSE <<0, y + 1>>

\* inner and outer loop increment of the grid filling loops
NextVertex(x, y, gw) == IF x + 1 < gw THEN <<x + 1, y>> ELSE <<0, y + 1>>

\* inner and outer loop increment of the pixel loops
NextPixel(x, y, w) == IF x + 1 < w THEN <<x + 1, y>> ELSE <<0, y + 1>>

\* values a read outside the grid can make perlin return
GarbageResults == {R(0), R(100)}

\* ------------------------------------------------------- configurations
Persistences == {R(0), PERSISTENCE, R(1)}

OctaveCounts == (1 .. MaxOct) \cup {OCTAVES}

Configs ==
    [W : 0 .. MaxW, H : 0 .. MaxH, cell : 1 .. MaxCell,
     oct : OctaveCounts, pers : Persistences]

\* ---------------------------------------------------------------- state
VARIABLES
    cfg,          \* WIDTH, HEIGHT, GRID_SIZE, OCTAVES, PERSISTENCE
    nRuns,        \* number of executions of the program that are compared
    pc,           \* position of each run in WinMain
    steps,        \* number of steps each run has taken
    gridW, gridH, \* grid size computed by WinMain
    rng,          \* state of the generator
    gradients,    \* gradients[r][y][x]
    assignCount,  \* how often the filling loop assigned gradients[r][y][x]
    gx, gy,       \* indices of the filling loops
    px, py,       \* indices of the pixel loops
    fx, fy,       \* arguments of fractalPerlin
    i, total, frequency, amplitude, maxValue,  \* locals of fractalPerlin
    samples,      \* values returned by perlin during this fractalPerlin call
    query,        \* arguments of the last perlin call
    ret,          \* value returned by the last fractalPerlin call
    n,            \* remapped value of the last pixel
    sampleCalls,  \* number of perlin calls so far
    evalCount,    \* how often each pixel was evaluated and drawn
    oob,          \* some perlin call read outside the grid
    flips,        \* iterations of the display loop
    fadeArg, fadeVal  \* inputs and outputs of the fade check

configVars  == <<cfg, nRuns, gridW, gridH>>
buildVars   == <<rng, gradients, assignCount, gx, gy>>
pixelVars   == <<px, py, ret, n, evalCount>>
fractalVars == <<fx, fy, i, total, frequency, amplitude, maxValue, samples>>
sampleVars  == <<query, sampleCalls, oob>>
fadeVars    == <<fadeArg, fadeVal>>

vars == <<configVars, pc, steps, buildVars, pixelVars, fractalVars,
          sampleVars, flips, fadeVars>>

Runs == 1 .. nRuns

Pixels(c) == (0 .. c.W - 1) \X (0 .. c.H - 1)

HasPixels(c) == c.W > 0 /\ c.H > 0

\* state of every run when the filling loop is about to start
InitProgram(c, k) ==
    /\ cfg = c
    /\ nRuns = k
    /\ pc = [r \in 1 .. k |-> "build"]
    /\ steps = [r \in 1 .. k |-> 0]
    /\ gridW = [r \in 1 .. k |-> GridDim(c.W, c.cell, c.oct)]
    /\ gridH = [r \in 1 .. k |-> GridDim(c.H, c.cell, c.oct)]
    /\ rng = [r \in 1 .. k |-> Seed]
    /\ gradients = [r \in 1 .. k |->
           [y \in 0 .. GridDim(c.H, c.cell, c.oct) - 1 |->
               [x \in 0 .. GridDim(c.W, c.cell, c.oct) - 1 |-> <<0, 0>>]]]
    /\ assignCount = [r \in 1 .. k |->
           [y \in 0 .. GridDim(c.H, c.cell, c.oct) - 1 |->
               [x \in 0 .. GridDim(c.W, c.cell, c.oct) - 1 |-> 0]]]
    /\ gx = [r \in 1 .. k |-> 0]
    /\ gy = [r \in 1 .. k |-> 0]
    /\ px = [r \in 1 .. k |-> 0]
    /\ py = [r \in 1 .. k |-> 0]
    /\ fx = [r \in 1 .. k |-> R(0)]
    /\ fy = [r \in 1 .. k |-> R(0)]
    /\ i = [r \in 1 .. k |-> 0]
    /\ total = [r \in 1 .. k |-> R(0)]
    /\ frequency = [r \in 1 .. k |-> 1]
    /\ amplitude = [r \in 1 .. k |-> R(1)]
    /\ maxValue = [r \in 1 .. k |-> R(0)]
    /\ samples = [r \in 1 .. k |-> <<>>]
    /\ query = [r \in 1 .. k |-> <<R(0), R(0)>>]
    /\ ret = [r \in 1 .. k |-> R(0)]
    /\ n = [r \in 1 .. k |-> R(0)]
    /\ sampleCalls = [r \in 1 .. k |-> 0]
    /\ evalCount = [r \in 1 .. k |-> [p \in Pixels(c) |-> 0]]
    /\ oob = [r \in 1 .. k |-> FALSE]
    /\ flips = [r \in 1 .. k |-> 0]

Init ==
    /\ \E c \in Configs : InitProgram(c, 1)
    /\ fadeArg = <<R(0), R(0)>>
    /\ fadeVal = <<>>

\* two executions of the program on the same configuration
InitTwoRuns ==
    /\ \E c \in Configs : InitProgram(c, 2)
    /\ fadeArg = <<R(0), R(0)>>
    /\ fadeVal = <<>>

Halted(r) == pc[r] \in {"done", "crashed"}

\* the runs share nothing; they are stepped alternately, run 1 first
Scheduled(r) ==
    \A q \in Runs \ {r} :
        \/ Halted(q)
        \/ IF q < r THEN steps[r] < steps[q] ELSE steps[r] <= steps[q]

Step(r) == steps' = [steps EXCEPT ![r] = @ + 1]

\* ------------------------------------------------------------- actions
\* one iteration of the inner filling loop
BuildVertex(r) ==
    /\ pc[r] = "build"
    /\ Scheduled(r)
    /\ LET d  == randomGradient(rng[r])
           nv == NextVertex(gx[r], gy[r], gridW[r])
       IN  /\ gradients' = [gradients EXCEPT ![r][gy[r]][gx[r]] = d.grad]
           /\ assignCount' = [assignCount EXCEPT ![r][gy[r]][gx[r]] = @ + 1]
           /\ rng' = [rng EXCEPT ![r] = d.gen]
           /\ gx' = [gx EXCEPT ![r] = nv[1]]
           /\ gy' = [gy EXCEPT ![r] = nv[2]]
           /\ pc' = [pc EXCEPT ![r] =
                  IF nv[2] < gridH[r] THEN "build"
                  ELSE IF HasPixels(cfg) THEN "loop" ELSE "display"]
    /\ Step(r)
    /\ UNCHANGED <<configVars, pixelVars, fractalVars, sampleVars, flips, fadeVars>>

\* the pixel loop body up to the entry of fractalPerlin
EnterFractal(r) ==
    /\ pc[r] = "loop"
    /\ Scheduled(r)
    /\ fx' = [fx EXCEPT ![r] = Norm(<<px[r], cfg.cell>>)]
    /\ fy' = [fy EXCEPT ![r] = Norm(<<py[r], cfg.cell>>)]
    /\ i' = [i EXCEPT ![r] = 0]
    /\ total' = [total EXCEPT ![r] = R(0)]
    /\ frequency' = [frequency EXCEPT ![r] = 1]
    /\ amplitude' = [amplitude EXCEPT ![r] = R(1)]
    /\ maxValue' = [maxValue EXCEPT ![r] = R(0)]
    /\ samples' = [samples EXCEPT ![r] = <<>>]
    /\ pc' = [pc EXCEPT ![r] = "octave"]
    /\ Step(r)
    /\ UNCHANGED <<configVars, buildVars, pixelVars, sampleVars, flips, fadeVars>>

\* the rest of one octave iteration once perlin has returned v
Accumulate(r, v) ==
    /\ total' = [total EXCEPT ![r] = AddOctave(@, v, amplitude[r])]
    /\ maxValue' = [maxValue EXCEPT ![r] = RAdd(@, amplitude[r])]
    /\ amplitude' = [amplitude EXCEPT ![r] = NextAmplitude(@, cfg.pers)]
    /\ frequency' = [frequency EXCEPT ![r] = NextFrequency(@)]
    /\ i' = [i EXCEPT ![r] = @ + 1]
    /\ samples' = [samples EXCEPT ![r] = Append(@, v)]
    /\ sampleCalls' = [sampleCalls EXCEPT ![r] = @ + 1]
    /\ UNCHANGED pc

\* one iteration of the octave loop.  A perlin call whose cell is not inside
\* the grid indexes a vector out of range: the process may stop, or the call
\* returns an indeterminate value.
OctaveStep(r) ==
    /\ pc[r] = "octave"
    /\ i[r] < cfg.oct
    /\ Scheduled(r)
    /\ LET x == RMul(fx[r], R(frequency[r]))
           y == RMul(fy[r], R(frequency[r]))
       IN  /\ query' = [query EXCEPT ![r] = <<x, y>>]
           /\ IF InGrid(x, y, gridW[r], gridH[r])
              THEN /\ Accumulate(r, perlin(x, y, gradients[r]))
                   /\ UNCHANGED oob
              ELSE /\ oob' = [oob EXCEPT ![r] = TRUE]
                   /\ \/ \E g \in GarbageResults : Accumulate(r, g)
                      \/ /\ pc' = [pc EXCEPT ![r] = "crashed"]
                         /\ UNCHANGED <<fractalVars, sampleCalls>>
    /\ Step(r)
    /\ UNCHANGED <<configVars, buildVars, pixelVars, fx, fy, flips, fadeVars>>

\* return of fractalPerlin, remap, drawing the pixel, loop increments
ReturnAndDraw(r) ==
    /\ pc[r] = "octave"
    /\ i[r] = cfg.oct
    /\ Scheduled(r)
    /\ LET v  == RDiv(total[r], maxValue[r])
           np == NextPixel(px[r], py[r], cfg.W)
       IN  /\ ret' = [ret EXCEPT ![r] = v]
           /\ n' = [n EXCEPT ![r] = Remap(v)]
           /\ evalCount' = [evalCount EXCEPT ![r][<<px[r], py[r]>>] = @ + 1]
           /\ px' = [px EXCEPT ![r] = np[1]]
           /\ py' = [py EXCEPT ![r] = np[2]]
           /\ pc' = [pc EXCEPT ![r] = IF np[2] < cfg.H THEN "loop" ELSE "display"]
    /\ Step(r)
    /\ UNCHANGED <<configVars, buildVars, fractalVars, sampleVars, flips, fadeVars>>

\* one iteration of the display loop
ScreenFlip(r) ==
    /\ pc[r] = "display"
    /\ flips[r] < MaxFlips
    /\ Scheduled(r)
    /\ flips' = [flips EXCEPT ![r] = @ + 1]
    /\ Step(r)
    /\ UNCHANGED <<configVars, pc, buildVars, pixelVars, fractalVars, sampleVars, fadeVars>>

\* the display loop ends (window closed or ESC pressed)
Exit(r) ==
    /\ pc[r] = "display"
    /\ Scheduled(r)
    /\ pc' = [pc EXCEPT ![r] = "done"]
    /\ Step(r)
    /\ UNCHANGED <<configVars, buildVars, pixelVars, fractalVars, sampleVars, flips, fadeVars>>

Next ==
    \E r \in Runs :
        \/ BuildVertex(r)
        \/ EnterFractal(r)
        \/ OctaveStep(r)
        \/ ReturnAndDraw(r)
        \/ ScreenFlip(r)
        \/ Exit(r)

Spec == Init /\ [][Next]_vars

SpecTwoRuns == InitTwoRuns /\ [][Next]_vars


\* -------------------------------------------------- check of fade alone
\* the rationals of [0, 1] with a denominator up to FadeDen
FadeInputs == {Norm(<<k, d>>) : k \in 0 .. FadeDen, d \in 1 .. FadeDen} \cap
              {q \in (0 .. FadeDen) \X (1 .. FadeDen) : q[1] <= q[2]}

\* the program itself stays idle while fade is applied to a pair s <= t
IdleConfig == [W |-> 1, H |-> 1, cell |-> 1, oct |-> 1, pers |-> PERSISTENCE]

InitFade ==
    /\ InitProgram(IdleConfig, 1)
    /\ fadeArg \in {a \in FadeInputs \X FadeInputs : RLe(a[1], a[2])}
    /\ fadeVal = <<>>

ApplyFade ==
    /\ fadeVal = <<>>
    /\ fadeVal' = <<fade(fadeArg[1]), fade(fadeArg[2])>>
    /\ UNCHANGED <<configVars, pc, steps, buildVars, pixelVars, fractalVars,
                   sampleVars, flips, fadeArg>>

NextFade == ApplyFade

SpecFade == InitFade /\ [][NextFade]_vars

\* ----------------------------------------------------------- properties
\* a configuration the specification calls valid
Valid(c) == c.cell > 0 /\ c.W > 0 /\ c.H > 0 /\ c.oct >= 1 /\ c.pers[1] > 0

Ceil(a, b) == (a + b - 1) \div b

RECURSIVE SumPow(_, _)
SumPow(p, k) == IF k = 0 THEN R(0) ELSE RAdd(SumPow(p, k - 1), RPow(p, k - 1))

RECURSIVE WeightedSum(_, _)
WeightedSum(s, p) ==
    IF s = <<>> THEN R(0)
    ELSE RAdd(WeightedSum(SubSeq(s, 1, Len(s) - 1), p),
              RMul(s[Len(s)], RPow(p, Len(s) - 1)))

AllAssignedOnce(r) ==
    \A y \in 0 .. gridH[r] - 1 : \A x \in 0 .. gridW[r] - 1 :
        assignCount[r][y][x] = 1

\* the octave loop of the current fractalPerlin call has finished
AfterLoop(r) == pc[r] = "octave" /\ i[r] = cfg.oct

\* fractalPerlin has returned and has not been entered again
Returned(r) == pc[r] \in {"loop", "display", "done"} /\ Len(samples[r]) = cfg.oct

\* the j-th query (j = 1 ..) of the current fractalPerlin call
OctaveQuery(r, j) ==
    <<RMul(fx[r], R(Pow2(j - 1))), RMul(fy[r], R(Pow2(j - 1)))>>

QueryInGrid(r, q) == InGrid(q[1], q[2], gridW[r], gridH[r])

\* C1: for every valid configuration every vertex index used by a perlin
\* call during field generation is inside the grid (no read out of bounds).
C1_SizingSufficiency ==
    \A r \in Runs : Valid(cfg) => ~oob[r] /\ QueryInGrid(r, query[r])

\* C2: for positive width, height and cell size the grid is
\* ceil(width / cell) * 2^(octaves - 1) + 2 wide and
\* ceil(height / cell) * 2^(octaves - 1) + 2 high.
C2_GridDimensions ==
    \A r \in Runs :
        (cfg.W > 0 /\ cfg.H > 0 /\ cfg.cell > 0) =>
            /\ gridW[r] = Ceil(cfg.W, cfg.cell) * Pow2(cfg.oct - 1) + 2
            /\ gridH[r] = Ceil(cfg.H, cfg.cell) * Pow2(cfg.oct - 1) + 2

\* C3: two runs on the same valid configuration that have taken the same
\* number of steps hold the same gradient grid and have produced the same
\* composed noise and the same field value for the last pixel.
C3_Determinism ==
    \A r1 \in Runs : \A r2 \in Runs :
        (Valid(cfg) /\ steps[r1] = steps[r2]) =>
            /\ gradients[r1] = gradients[r2]
            /\ ret[r1] = ret[r2]
            /\ n[r1] = n[r2]

\* C4: after the octave loop maxValue is the sum of persistence^j and total
\* the sum of the perlin samples at (x * 2^j, y * 2^j) weighted by
\* persistence^j, j < octaves; maxValue is positive, it is 31/16 = 1.9375 for
\* 5 octaves with persistence 1/2, and fractalPerlin returns total / maxValue.
C4_FractalNormalization ==
    \A r \in Runs :
        Valid(cfg) =>
            /\ (AfterLoop(r) \/ Returned(r)) =>
                   /\ maxValue[r] = SumPow(cfg.pers, cfg.oct)
                   /\ maxValue[r][1] > 0
                   /\ total[r] = WeightedSum(samples[r], cfg.pers)
                   /\ \A j \in 1 .. cfg.oct :
                          QueryInGrid(r, OctaveQuery(r, j)) =>
                              samples[r][j] = perlin(OctaveQuery(r, j)[1],
                                                     OctaveQuery(r, j)[2],
                                                     gradients[r])
                   /\ (cfg.oct = 5 /\ cfg.pers = <<1, 2>>) => maxValue[r] = <<31, 16>>
            /\ Returned(r) =>
                   ret[r] = RDiv(WeightedSum(samples[r], cfg.pers),
                                 SumPow(cfg.pers, cfg.oct))

C4_Witness ==
    \E r \in Runs :
        /\ Returned(r) /\ ~oob[r]
        /\ cfg.oct = 5 /\ cfg.pers = <<1, 2>>
        /\ maxValue[r] = <<31, 16>>
        /\ total[r][1] # 0
        /\ ret[r] = RDiv(total[r], <<31, 16>>)

\* C5: for every valid configuration the composed noise lies in [-1, 1] and
\* the field value (n + 1) / 2 in [0, 1].
C5_Range ==
    \A r \in Runs :
        Valid(cfg) =>
            /\ RLe(R(-1), ret[r]) /\ RLe(ret[r], R(1))
            /\ RLe(R(0), n[r]) /\ RLe(n[r], R(1))

\* C6: a perlin call at an integer vertex whose cell is inside the grid
\* returns 0, and a pixel that lies on a vertex gets the field value 1/2.
C6_VertexValue ==
    \A r \in Runs :
        /\ ( /\ pc[r] \in {"octave", "loop", "display", "done"}
             /\ Len(samples[r]) > 0
             /\ IsInt(query[r][1]) /\ IsInt(query[r][2])
             /\ QueryInGrid(r, query[r]) )
           => samples[r][Len(samples[r])] = R(0)
        /\ ( /\ Returned(r)
             /\ IsInt(fx[r]) /\ IsInt(fy[r])
             /\ \A j \in 1 .. cfg.oct : QueryInGrid(r, OctaveQuery(r, j)) )
           => (ret[r] = R(0) /\ n[r] = <<1, 2>>)

C6_Witness ==
    \E r \in Runs :
        /\ Returned(r)
        /\ fx[r] = R(1) /\ fy[r] = R(1)
        /\ query[r] = <<R(2), R(2)>>
        /\ QueryInGrid(r, query[r])
        /\ gradients[r][2][2] # <<0, 0>>
        /\ samples[r][Len(samples[r])] = R(0)
        /\ n[r] = <<1, 2>>

\* C7: fade(0) = 0, fade(1) = 1, fade(1/2) = 1/2 and fade(s) <= fade(t)
\* for 0 <= s <= t <= 1.
C7_Fade ==
    fadeVal # <<>> =>
        /\ RLe(fadeVal[1], fadeVal[2])
        /\ \A k \in 1 .. 2 :
               /\ fadeArg[k] = R(0) => fadeVal[k] = R(0)
               /\ fadeArg[k] = R(1) => fadeVal[k] = R(1)
               /\ fadeArg[k] = <<1, 2>> => fadeVal[k] = <<1, 2>>

C7_Witness ==
    /\ fadeArg = << <<1, 2>>, R(1) >>
    /\ fadeVal = << <<1, 2>>, R(1) >>

\* C8: with an invalid configuration no vertex is assigned, no sample is
\* taken and the run does not get to the display loop.
C8_ConfigurationValidation ==
    \A r \in Runs :
        ~Valid(cfg) =>
            /\ \A y \in 0 .. gridH[r] - 1 : \A x \in 0 .. gridW[r] - 1 :
                   assignCount[r][y][x] = 0
            /\ sampleCalls[r] = 0
            /\ pc[r] \notin {"display", "done"}

\* C9: every vertex is assigned exactly once and before the first perlin
\* call, and once the filling loop is over no step changes the grid.
C9_BuildBeforeSample ==
    /\ [](\A r \in Runs :
             /\ \A y \in 0 .. gridH[r] - 1 : \A x \in 0 .. gridW[r] - 1 :
                    assignCount[r][y][x] <= 1
             /\ (pc[r] # "build" \/ sampleCalls[r] > 0 \/ oob[r]) =>
                    AllAssignedOnce(r))
    /\ [][\A r \in Runs :
             (pc[r] # "build" \/ sampleCalls[r] > 0) =>
                 /\ gradients'[r] = gradients[r]
                 /\ assignCount'[r] = assignCount[r]]_vars

C9_Witness ==
    \E r \in Runs :
        /\ pc[r] = "done" /\ flips[r] > 0
        /\ sampleCalls[r] > 0
        /\ AllAssignedOnce(r)
        /\ gradients[r][gridH[r] - 1][gridW[r] - 1] # <<0, 0>>

\* C10: for every valid configuration the pixel loop runs to its end: the
\* run never stops inside it, no pixel is evaluated twice, and when the
\* display loop is entered every pixel has been evaluated exactly once with
\* width * height * octaves perlin calls made.
C10_Termination ==
    \A r \in Runs :
        Valid(cfg) =>
            /\ pc[r] # "crashed"
            /\ \A p \in Pixels(cfg) : evalCount[r][p] <= 1
            /\ pc[r] \in {"display", "done"} =>
                   /\ \A p \in Pixels(cfg) : evalCount[r][p] = 1
                   /\ sampleCalls[r] = cfg.W * cfg.H * cfg.oct
            /\ pc[r] \notin {"display", "done"} => flips[r] = 0

====
